---- MODULE Spec2Model ----
(***************************************************************************)
(* Model of gtnh/gui.py (DreamAssemblerXXL): the archive assembly pipeline *)
(* driven by ArchivePopup.start, together with the MainFrame popup guard.  *)
(*                                                                         *)
(* Paths are sequences of components.  A directory on disk is either       *)
(* NoDir (it does not exist) or a record [files, dirs] of paths relative   *)
(* to it.  The progress bar value is kept in hundredths (10000 = 100.00).  *)
(***************************************************************************)
EXTENDS Integers, Sequences, FiniteSets, TLC

\* ------------------------------------------------------------------ bounds
MaxMods == 3        \* longest github_mods list of a manifest
MaxExclusions == 2  \* longest exclusion list of a manifest
MaxRuns == 2        \* presses of the start button in one behaviour
MaxEdits == 1       \* changes of the manifest / the upstream release
MaxDepth == 2       \* nesting of start() calls through self.update()
MaxUnits == 5       \* mods / staged files of a run kept by their number
ManyUnits == 20001  \* a number of mods / staged files with 100 / n < 0.005

\* ------------------------------------------------------------------ paths
CacheDir == <<"cache">>
ClientFolder == CacheDir \o <<"client_archive">>
ServerFolder == CacheDir \o <<"server_archive">>
TempDir == CacheDir \o <<"temp">>

\* a directory that does not exist, and one that exists and is empty
NoDir == [exists |-> FALSE, files |-> {}, dirs |-> {}]
EmptyDir == [exists |-> TRUE, files |-> {}, dirs |-> {}]

\* order in which iterdir lists the entries of a directory (by entry name)
NameOrder ==
    <<"a", "api", "b", "c", "d", "e", "m1.jar", "m2.jar", "m3.jar", "m4.jar",
      "m5.jar", "m6.jar", "mods", "x", "zz">>

\* the order of the directory listings of the file system: by name, by name
\* backwards, or by name starting in the middle
VARIABLE listing
Listings == {"ascending", "descending", "rotated"}

Rank(name) ==
    LET k == CHOOSE j \in 1..Len(NameOrder) : NameOrder[j] = name
    IN  CASE listing = "ascending" -> k
          [] listing = "descending" -> Len(NameOrder) + 1 - k
          [] listing = "rotated" -> (k + Len(NameOrder) \div 2) % Len(NameOrder)

\* PurePath.relative_to: the part of p below root (p must lie below root)
RelativeTo(p, root) == SubSeq(p, Len(root) + 1, Len(p))

Parent(p) == SubSeq(p, 1, Len(p) - 1)

\* every proper ancestor of the relative path p, the root <<>> excluded
Ancestors(p) == {SubSeq(p, 1, k) : k \in 1..(Len(p) - 1)}

\* pathlib parsing of a path string split at "/": empty components
\* (redundant separators) and "." components are dropped, ".." is kept
Parts(raw) == SelectSeq(raw, LAMBDA c : c \notin {"", "."})

\* root / raw
Join(root, raw) == root \o Parts(raw)

SeqToSet(s) == {s[k] : k \in 1..Len(s)}

\* the paths of S as a sequence, in NameOrder of their last component
RECURSIVE Sorted(_)
Sorted(S) ==
    IF S = {} THEN <<>>
    ELSE LET m == CHOOSE p \in S :
                    \A q \in S : Rank(p[Len(p)]) <= Rank(q[Len(q)])
         IN  <<m>> \o Sorted(S \ {m})

\* ------------------------------------------------------------- filesystem
\* (mutant) the entries of path, not filtered by is_file
FilesIn_Entries(dir, path) ==
    Sorted({f \in dir.files \cup dir.dirs : Parent(f) = path})

\* path.iterdir() filtered by is_file / is_dir, as lists
FilesIn(dir, path) == Sorted({f \in dir.files : Parent(f) = path})
FoldersIn(dir, path) == Sorted({d \in dir.dirs : Parent(d) = path})

\* crawl(path): the files of path, then those of each sub-folder in turn
RECURSIVE Crawl(_, _), CrawlFolders(_, _, _)
Crawl(dir, path) ==
    FilesIn(dir, path) \o CrawlFolders(dir, FoldersIn(dir, path), 1)
CrawlFolders(dir, folders, k) ==
    IF k > Len(folders) THEN <<>>
    ELSE Crawl(dir, folders[k]) \o CrawlFolders(dir, folders, k + 1)

\* crawl of the folder at root, as absolute paths
CrawlAt(root, dir) ==
    LET rel == Crawl(dir, <<>>) IN [k \in 1..Len(rel) |-> root \o rel[k]]

\* (mutant) the file is copied to destination_root / file.name
CopyInto_Flat(dir, rel) ==
    [exists |-> TRUE, files |-> dir.files \cup {<<rel[Len(rel)]>>},
     dirs |-> dir.dirs]

\* one iteration of move_file_to_folder: makedirs of the missing parents
\* (the destination root included), then copy
CopyInto(dir, rel) ==
    [exists |-> TRUE, files |-> dir.files \cup {rel},
     dirs |-> dir.dirs \cup Ancestors(rel)]

RECURSIVE MoveFileToFolder(_, _, _)
MoveFileToFolder(path_list, source_root, dir) ==
    IF path_list = <<>> THEN dir
    ELSE MoveFileToFolder(Tail(path_list), source_root,
                          CopyInto(dir, RelativeTo(Head(path_list), source_root)))

\* (mutant) the folder is left as it is
ResetFolder_Keep(dir) == dir

\* if folder.exists(): rmtree(folder); os.makedirs(folder)
ResetFolder(dir) == IF dir.exists THEN EmptyDir ELSE dir

\* ------------------------------------------------------ inputs of the runs
Sides == {"BOTH", "CLIENT", "SERVER", "NONE"}
KnownSides == {"BOTH", "CLIENT", "SERVER"}
Versions == {"1.0", "1.1"}

ModFile == <<"m1.jar", "m2.jar", "m3.jar", "m4.jar", "m5.jar", "m6.jar">>

\* download_mod: the files of a mod, below the cache directory
DownloadMod(mod) ==
    IF mod.name % 2 = 1
    THEN <<CacheDir \o <<"mods", ModFile[mod.name]>>>>
    ELSE <<CacheDir \o <<"mods", ModFile[mod.name]>>,
           CacheDir \o <<"mods", "api", ModFile[mod.name]>>>>

ModLists ==
    UNION {{[k \in 1..n |-> [name |-> k, side |-> f[k]]] : f \in [1..n -> Sides]}
           : n \in 0..MaxMods}

\* exclusion entries, as path strings split at "/"
ExA == <<"a">>                 \* "a"
ExDotA == <<".", "a">>         \* "./a"
ExUpA == <<"x", "..", "a">>    \* "x/../a"
ExDB == <<"d", "", "b">>       \* "d//b"
ExZZ == <<"zz">>               \* "zz", in no bulk archive

ExclusionEntries == {ExA, ExDotA, ExUpA, ExDB, ExZZ}

ExclusionLists ==
    UNION {[1..n -> ExclusionEntries] : n \in 0..MaxExclusions}

\* the manifests and exclusion lists the pipeline is run on
SomeModLists ==
    { <<>>,
      <<[name |-> 1, side |-> "BOTH"]>>,
      <<[name |-> 1, side |-> "CLIENT"], [name |-> 2, side |-> "SERVER"]>>,
      <<[name |-> 1, side |-> "NONE"], [name |-> 2, side |-> "BOTH"]>> }

SomeExclusionPairs ==
    { <<<<>>, <<>>>>,
      <<<<ExA>>, <<ExDB, ExZZ>>>>,
      <<<<ExUpA>>, <<ExDotA>>>> }

Manifest(mods, client_exclusions, server_exclusions) ==
    [github_mods |-> mods, modpack_version |-> "1.0",
     client_exclusions |-> client_exclusions,
     server_exclusions |-> server_exclusions]

\* contents of the bulk archive
Tree1 == [exists |-> TRUE, files |-> {<<"a">>, <<"d", "b">>}, dirs |-> {<<"d">>}]
Tree2 == [exists |-> TRUE, files |-> {<<"a">>, <<"c">>}, dirs |-> {<<"e">>}]

\* every bulk archive with files among TreeFiles, with or without the empty
\* directory e
TreeFiles == {<<"a">>, <<"c">>, <<"d", "b">>, <<"d", "e", "c">>, <<"x", "a">>}
TreePool ==
    {[exists |-> TRUE, files |-> F,
      dirs |-> UNION {Ancestors(p) : p \in F} \cup E]
     : F \in SUBSET TreeFiles, E \in {{}, {<<"e">>}}}

\* asset names are <<stem, extension>>
PackZip == <<"pack", "zip">>
NoRelease == [exists |-> FALSE, assets |-> <<>>]
Releases ==
    { NoRelease,
      [exists |-> TRUE, assets |-> <<>>],
      [exists |-> TRUE, assets |-> <<[name |-> PackZip, tree |-> Tree1]>>],
      [exists |-> TRUE,
       assets |-> <<[name |-> <<"notes", "txt">>, tree |-> NoDir],
                    [name |-> PackZip, tree |-> Tree2]>>] }

\* a zip archive that does not exist; an existing one lists its members
NoZip == [exists |-> FALSE, members |-> <<>>]

ArchiveNames == {"client", "server"} \X Versions

\* --------------------------------------------------------------- the state
VARIABLES
    is_archive_popup_open,  \* MainFrame.is_archive_popup_open
    archive_popup,          \* MainFrame.archive_popup is not None
    archive_windows,        \* ArchivePopup windows on screen
    is_new_repo_popup_open, \* MainFrame.is_new_repo_popup_open
    repo_popup,             \* MainFrame.repo_popup is not None
    repo_windows,           \* AddRepoPopup windows on screen
    is_messagebox_open,     \* AddRepoPopup.is_messagebox_open
    stringvar_name_repo,    \* AddRepoPopup.stringvar_name_repo.get()
    validated,              \* the last call of AddRepoPopup.validate
    tally,                  \* the units the loops of a run have reported
    bar,                    \* progress_bar["value"] of the open ArchivePopup
    stack,                  \* the start() calls in progress, innermost last
    runs,                   \* presses of start so far
    edits,                  \* changes of manifest / release so far
    manifest,               \* the manifest file load_gtnh_manifest reads
    release,                \* latest release of GT-New-Horizons-Modpack
    cached,                 \* cache/<asset name>: the downloaded bulk archives
    client_archive,         \* cache/client_archive
    server_archive,         \* cache/server_archive
    temp,                   \* cache/temp
    zips,                   \* cache/client-<v>.zip, cache/server-<v>.zip
    cwd                     \* os.getcwd()

guiVars == <<is_archive_popup_open, archive_popup, archive_windows>>
repoVars == <<is_new_repo_popup_open, repo_popup, repo_windows,
              is_messagebox_open, stringvar_name_repo, validated>>
otherVars == <<repoVars, tally, listing>>
envVars == <<manifest, release, edits>>
fsVars == <<cached, client_archive, server_archive, temp, zips, cwd>>
vars == <<guiVars, bar, stack, runs, envVars, fsVars, otherVars>>

Top == stack[Len(stack)]
SetTop(f) == [stack EXCEPT ![Len(stack)] = f]

TerminalPcs == {"Done", "Aborted", "Crashed"}
UpdatePcs == {"download_update", "pack_client_update", "pack_server_update"}

\* the main loop dispatches an event when no handler is running; a message
\* box holds the events of the other windows
Idle == stack = <<>> /\ ~is_messagebox_open
\* self.update() inside _progress_callback dispatches pending events
InUpdate == stack # <<>> /\ Top.pc \in UpdatePcs /\ Len(stack) < MaxDepth

\* no call of validate yet; no tally of units is kept
NotValidated == [name |-> 0, before |-> <<>>, report |-> "", written |-> FALSE]
NoTally == [units |-> <<0, 0, 0>>, loop |-> 0]

\* MainFrame.__init__, an empty cache directory
Started ==
    /\ is_archive_popup_open = FALSE
    /\ archive_popup = FALSE
    /\ archive_windows = 0
    /\ is_new_repo_popup_open = FALSE
    /\ repo_popup = FALSE
    /\ repo_windows = 0
    /\ is_messagebox_open = FALSE
    /\ stringvar_name_repo = 0
    /\ validated = NotValidated
    /\ tally = NoTally
    /\ bar = 0
    /\ stack = <<>>
    /\ runs = 0
    /\ edits = 0
    /\ cached = [n \in {PackZip} |-> NoDir]
    /\ client_archive = NoDir
    /\ server_archive = NoDir
    /\ temp = NoDir
    /\ zips = [n \in ArchiveNames |-> NoZip]
    /\ cwd = "app"

Init ==
    /\ Started
    /\ listing = "ascending"
    /\ \E m \in SomeModLists, e \in SomeExclusionPairs :
         manifest = Manifest(m, e[1], e[2])
    /\ release \in Releases

\* every list of mods, one bulk archive
InitMods ==
    /\ Started
    /\ listing = "ascending"
    /\ \E m \in ModLists : manifest = Manifest(m, <<ExA>>, <<>>)
    /\ release = [exists |-> TRUE, assets |-> <<[name |-> PackZip, tree |-> Tree1]>>]

\* every exclusion list for one side beside some for the other, on either
\* bulk archive
InitExclusions ==
    /\ Started
    /\ listing = "ascending"
    /\ \E c \in ExclusionLists, e \in SomeExclusionPairs :
         \/ manifest = Manifest(<<[name |-> 1, side |-> "BOTH"]>>, c, e[2])
         \/ manifest = Manifest(<<[name |-> 1, side |-> "BOTH"]>>, e[1], c)
    /\ release \in {r \in Releases : r.assets # <<>>}

\* every bulk archive of TreePool under every order of directory listing
InitTrees ==
    /\ Started
    /\ listing \in Listings
    /\ \E m \in {<<[name |-> 1, side |-> "BOTH"]>>,
                 <<[name |-> 1, side |-> "CLIENT"], [name |-> 2, side |-> "BOTH"]>>} :
         manifest = Manifest(m, <<>>, <<ExA>>)
    /\ \E t \in TreePool :
         release = [exists |-> TRUE, assets |-> <<[name |-> PackZip, tree |-> t]>>]

\* a run in an ArchivePopup just opened, its three loops (download_mods,
\* pack_clientpack, pack_serverpack) kept by the numbers of their units
UnitCounts == (1..MaxUnits) \cup {ManyUnits}

InitTally ==
    /\ is_archive_popup_open = TRUE
    /\ archive_popup = TRUE
    /\ archive_windows = 1
    /\ is_new_repo_popup_open = FALSE
    /\ repo_popup = FALSE
    /\ repo_windows = 0
    /\ is_messagebox_open = FALSE
    /\ stringvar_name_repo = 0
    /\ validated = NotValidated
    /\ bar = 0
    /\ stack = <<>>
    /\ runs = 0
    /\ edits = 0
    /\ cached = [n \in {PackZip} |-> NoDir]
    /\ client_archive = NoDir
    /\ server_archive = NoDir
    /\ temp = NoDir
    /\ zips = [n \in ArchiveNames |-> NoZip]
    /\ cwd = "app"
    /\ listing = "ascending"
    /\ manifest = Manifest(<<>>, <<>>, <<>>)
    /\ release = NoRelease
    /\ \E mods \in UnitCounts, client \in UnitCounts, server \in UnitCounts :
         tally = [units |-> <<mods, client, server>>, loop |-> 1]

\* manifests and bulk archives that leave a list of the run empty: no mods,
\* mods of one side only, a bulk archive of one file or of none
TreeA == [exists |-> TRUE, files |-> {<<"a">>}, dirs |-> {}]

InitEmpty ==
    /\ Started
    /\ listing = "ascending"
    /\ \E m \in {<<>>, <<[name |-> 1, side |-> "CLIENT"]>>,
                 <<[name |-> 1, side |-> "SERVER"]>>,
                 <<[name |-> 1, side |-> "BOTH"]>>},
          e \in SomeExclusionPairs :
         manifest = Manifest(m, e[1], e[2])
    /\ \E t \in {EmptyDir, TreeA, Tree1} :
         release = [exists |-> TRUE, assets |-> <<[name |-> PackZip, tree |-> t]>>]

\* some manifests for the popups to work on
InitRepo ==
    /\ Started
    /\ listing = "ascending"
    /\ \E m \in SomeModLists : manifest = Manifest(m, <<>>, <<>>)
    /\ release = NoRelease

\* ------------------------------------------------------ pieces of the code
Min(a, b) == IF a <= b THEN a ELSE b

\* a / n rounded to the nearest integer: format(value, ".2f") on hundredths
RoundDiv(a, n) == (2 * a + n) \div (2 * n)

\* (mutant) the value is not capped at 100
ProgressValue_NoCap(value, n) == RoundDiv(value * n + 10000, n)

\* _progress_callback with delta_progress = 100 / n: value += delta_progress,
\* then value = min(100.0, float(format(value, ".2f")))
ProgressValue(value, n) == Min(10000, RoundDiv(value * n + 10000, n))

\* the value after count calls of _progress_callback, each reporting one of
\* n units; a value of 100 stays 100
RECURSIVE Reported(_, _, _)
Reported(value, n, count) ==
    IF count = 0 THEN value
    ELSE IF count = 1 THEN ProgressValue(value, n)
    ELSE LET half == Reported(value, n, count \div 2)
         IN  IF half < 10000 THEN Reported(half, n, count - count \div 2)
             ELSE 10000

\* download_mods: what one mod adds to client_paths / server_paths
ClientExtend(side, client_paths, paths) ==
    IF side = "BOTH" THEN client_paths \o paths
    ELSE IF side = "CLIENT" THEN client_paths \o paths
    ELSE client_paths

\* (mutant) the files of a CLIENT mod reach the server list as well
ServerExtend_Client(side, server_paths, paths) ==
    IF side \in {"BOTH", "CLIENT", "SERVER"} THEN server_paths \o paths
    ELSE server_paths

ServerExtend(side, server_paths, paths) ==
    IF side = "BOTH" THEN server_paths \o paths
    ELSE IF side = "CLIENT" THEN server_paths
    ELSE IF side = "SERVER" THEN server_paths \o paths
    ELSE server_paths

\* (mutant) the exclusions are not joined with the extraction root
JoinAll_NoRoot(root, exclusions) ==
    [k \in 1..Len(exclusions) |-> Parts(exclusions[k])]

\* [temp_dir / exclusion for exclusion in exclusions]
JoinAll(root, exclusions) ==
    [k \in 1..Len(exclusions) |-> Join(root, exclusions[k])]

\* list(availiable_files - set(exclusions))
ResolveFiles(availiable_files, exclusions) ==
    availiable_files \ SeqToSet(exclusions)

\* asset.name.endswith(".zip")
EndsWithZip(name) == name[Len(name)] = "zip"

\* the loop of download_pack_archive over the release assets: the cache after
\* it and gtnh_archive_path (<<>> while the name is unbound)
RECURSIVE FetchAssets(_, _, _)
FetchAssets(assets, cache, path) ==
    IF assets = <<>> THEN [cache |-> cache, path |-> path]
    ELSE LET asset == Head(assets) IN
         IF ~EndsWithZip(asset.name)
         THEN FetchAssets(Tail(assets), cache, path)
         ELSE IF cache[asset.name].exists
         THEN FetchAssets(Tail(assets), cache, asset.name)
         ELSE FetchAssets(Tail(assets),
                          [cache EXCEPT ![asset.name] = asset.tree], asset.name)

\* (mutant) start has no except clause
Catch_Nothing(exception) == "Crashed"

\* ArchivePopup.start: except PackingInterruptException: pass; any other
\* exception leaves start
Catch(exception) ==
    IF exception = "PackingInterruptException" THEN "Aborted" ELSE "Crashed"

\* the frame of a start() call that ends with the exception
Raise(f, exception) ==
    [f EXCEPT !.pc = Catch(exception), !.error = exception,
              !.log = Append(@, Catch(exception))]

\* the frame of a start() call: its local variables, its position, and the
\* history of the run (log, snap, staged, lookup, dropped, before, zip_dir,
\* at_pack, into)
NewFrame ==
    [pc |-> "download", error |-> "",
     mods |-> manifest.github_mods, version |-> manifest.modpack_version,
     i |-> 1, client_paths |-> <<>>, server_paths |-> <<>>,
     archive_path |-> <<>>, availiable_files |-> {},
     client_exclusions |-> <<>>, server_exclusions |-> <<>>,
     client_files |-> {}, server_files |-> {},
     paths |-> <<>>, saved_cwd |-> cwd, linked |-> FALSE,
     destroyed |-> FALSE,
     zip_dir |-> [client |-> "", server |-> ""],
     at_pack |-> [client |-> {}, server |-> {}],
     into |-> [client |-> NoDir, server |-> NoDir],
     log |-> <<"DownloadingMods">>,
     snap |-> [client |-> client_archive, server |-> server_archive,
               temp |-> temp, zips |-> zips, cached |-> cached],
     staged_client |-> {}, staged_server |-> {},
     lookup |-> "", dropped |-> FALSE, reports |-> 0, before |-> bar]

\* ------------------------------------------------------------- GUI events
\* (mutant) the button opens a popup whether or not one is open
MayOpen_Always(is_open) == TRUE

\* "prevent the popup from appearing more than once"
MayOpen(is_open) == ~is_open

\* MainFrame.open_archive_popup
OpenArchivePopup ==
    /\ MayOpen(is_archive_popup_open)
    /\ is_archive_popup_open' = TRUE
    /\ archive_popup' = TRUE
    /\ archive_windows' = archive_windows + 1
    /\ bar' = 0
    /\ UNCHANGED otherVars
    /\ UNCHANGED <<stack, runs, envVars, fsVars>>

\* the popup is destroyed: _unlock_popup; the widgets of the runs in
\* progress are gone
DestroyPopup ==
    /\ archive_popup
    /\ is_archive_popup_open' = FALSE
    /\ archive_popup' = FALSE
    /\ archive_windows' = archive_windows - 1
    /\ bar' = 0
    /\ stack' = [k \in 1..Len(stack) |-> [stack[k] EXCEPT !.destroyed = TRUE]]
    /\ UNCHANGED otherVars
    /\ UNCHANGED <<runs, envVars, fsVars>>

\* ArchivePopup.start up to the first statement of download_mods
StartRun ==
    /\ archive_popup
    /\ runs < MaxRuns
    /\ runs' = runs + 1
    /\ stack' = Append(stack,
                       IF Len(manifest.github_mods) = 0
                       THEN Raise(NewFrame, "ZeroDivisionError")
                       ELSE NewFrame)
    /\ UNCHANGED otherVars
    /\ UNCHANGED <<guiVars, bar, envVars, fsVars>>

PressBuildArchive == Idle /\ OpenArchivePopup
ClosePopup == Idle /\ DestroyPopup
PressStart == Idle /\ StartRun

\* the same events dispatched by self.update() of a run in progress
UpdatePressBuildArchive == InUpdate /\ OpenArchivePopup
UpdateClosePopup == InUpdate /\ DestroyPopup
UpdatePressStart == InUpdate /\ StartRun

\* start() returns to the event dispatcher
Return ==
    /\ stack # <<>>
    /\ Top.pc \in TerminalPcs
    /\ stack' = SubSeq(stack, 1, Len(stack) - 1)
    /\ UNCHANGED otherVars
    /\ UNCHANGED <<guiVars, bar, runs, envVars, fsVars>>

\* ------------------------------------------------------------ AddRepoPopup
\* the repositories of the organisation on GitHub, those with a release, and
\* the names typed into the entry (9 is no repository; 0 is the empty entry)
Repositories == {1, 2, 5, 6}
Released == {1, 2, 5}
TypedNames == {1, 2, 5, 6, 9}

\* get_repo: the repository, or RepoNotFoundException
GetRepo(name) == [found |-> name \in Repositories, name |-> name]

\* GTNHModpack.get_github_mod: the mod of that name, if any
GetGithubMod(mods, name) == \E k \in 1..Len(mods) : mods[k].name = name

\* new_mod_from_repo: the mod of the repository, or LatestReleaseNotFound
NewModFromRepo(repo) ==
    [released |-> repo.name \in Released,
     mod |-> [name |-> repo.name, side |-> "BOTH"]]

\* sort_and_write_modpack: the mods by name, as written to the manifest
RECURSIVE SortMods(_)
SortMods(mods) ==
    IF mods = <<>> THEN <<>>
    ELSE LET k == CHOOSE j \in 1..Len(mods) :
                    \A i \in 1..Len(mods) : mods[j].name <= mods[i].name
         IN  <<mods[k]>> \o SortMods(SubSeq(mods, 1, k - 1)
                                       \o SubSeq(mods, k + 1, Len(mods)))

\* (mutant) the mod is appended and written before the release is looked up
ValidateOutcome_AppendFirst(name, mods) ==
    LET new_repo == GetRepo(name)
        new_mod == NewModFromRepo(new_repo)
        added == SortMods(Append(mods, new_mod.mod))
    IN  IF ~new_repo.found
        THEN [report |-> "showerror: repository not found",
              mods |-> mods, written |-> FALSE]
        ELSE IF GetGithubMod(mods, new_repo.name)
        THEN [report |-> "showwarning: repository already added",
              mods |-> mods, written |-> FALSE]
        ELSE IF ~new_mod.released
        THEN [report |-> "showerror: no release availiable on the repository",
              mods |-> added, written |-> TRUE]
        ELSE [report |-> "showinfo: repository added successfully",
              mods |-> added, written |-> TRUE]

\* the body of validate: the message box it shows, the mods of the manifest
\* after it and whether the manifest was written
ValidateOutcome(name, mods) ==
    LET new_repo == GetRepo(name)
        new_mod == NewModFromRepo(new_repo)
    IN  IF ~new_repo.found
        THEN [report |-> "showerror: repository not found",
              mods |-> mods, written |-> FALSE]
        ELSE IF GetGithubMod(mods, new_repo.name)
        THEN [report |-> "showwarning: repository already added",
              mods |-> mods, written |-> FALSE]
        ELSE IF ~new_mod.released
        THEN [report |-> "showerror: no release availiable on the repository",
              mods |-> mods, written |-> FALSE]
        ELSE [report |-> "showinfo: repository added successfully",
              mods |-> SortMods(Append(mods, new_mod.mod)), written |-> TRUE]

\* MainFrame.open_new_repo_popup; the entry of a new popup is empty
OpenNewRepoPopup ==
    /\ MayOpen(is_new_repo_popup_open)
    /\ is_new_repo_popup_open' = TRUE
    /\ repo_popup' = TRUE
    /\ repo_windows' = repo_windows + 1
    /\ stringvar_name_repo' = 0
    /\ UNCHANGED <<is_messagebox_open, validated, tally, listing>>
    /\ UNCHANGED <<guiVars, bar, stack, runs, envVars, fsVars>>

\* the popup is destroyed: _unlock_popup
DestroyRepoPopup ==
    /\ repo_popup
    /\ is_new_repo_popup_open' = FALSE
    /\ repo_popup' = FALSE
    /\ repo_windows' = repo_windows - 1
    /\ UNCHANGED <<is_messagebox_open, stringvar_name_repo, validated, tally,
                   listing>>
    /\ UNCHANGED <<guiVars, bar, stack, runs, envVars, fsVars>>

\* the user types a name into entry_name_repo
TypeRepoName ==
    /\ Idle
    /\ repo_popup
    /\ \E name \in TypedNames :
         /\ name # stringvar_name_repo
         /\ stringvar_name_repo' = name
    /\ UNCHANGED <<is_new_repo_popup_open, repo_popup, repo_windows,
                   is_messagebox_open, validated, tally, listing>>
    /\ UNCHANGED <<guiVars, bar, stack, runs, envVars, fsVars>>

\* AddRepoPopup.validate up to its message box
Validate ==
    /\ repo_popup
    /\ ~is_messagebox_open
    /\ is_messagebox_open' = TRUE
    /\ LET name == stringvar_name_repo
           gtnh == manifest
           outcome == ValidateOutcome(name, gtnh.github_mods)
       IN  /\ manifest' = IF outcome.written
                          THEN [gtnh EXCEPT !.github_mods = outcome.mods]
                          ELSE manifest
           /\ validated' = [name |-> name, before |-> gtnh.github_mods,
                            report |-> outcome.report,
                            written |-> outcome.written]
    /\ UNCHANGED <<is_new_repo_popup_open, repo_popup, repo_windows,
                   stringvar_name_repo, tally, listing>>
    /\ UNCHANGED <<guiVars, bar, stack, runs, release, edits, fsVars>>

\* the message box is dismissed: "releasing the blocking"
DismissMessagebox ==
    /\ is_messagebox_open
    /\ is_messagebox_open' = FALSE
    /\ UNCHANGED <<is_new_repo_popup_open, repo_popup, repo_windows,
                   stringvar_name_repo, validated, tally, listing>>
    /\ UNCHANGED <<guiVars, bar, stack, runs, envVars, fsVars>>

PressAddRepo == Idle /\ OpenNewRepoPopup
CloseRepoPopup == Idle /\ DestroyRepoPopup
PressValidate == Idle /\ Validate

\* -------------------------------------------------------- the environment
EditManifest ==
    /\ Idle
    /\ edits < MaxEdits
    /\ edits' = edits + 1
    /\ \/ \E e \in SomeExclusionPairs :
            manifest' = [manifest EXCEPT !.client_exclusions = e[1],
                                         !.server_exclusions = e[2]]
       \/ /\ manifest.github_mods # <<>>
          /\ \E s \in Sides :
               manifest' = [manifest EXCEPT
                              !.github_mods[Len(manifest.github_mods)].side = s]
       \/ \E v \in Versions : manifest' = [manifest EXCEPT !.modpack_version = v]
    /\ manifest' # manifest
    /\ UNCHANGED otherVars
    /\ UNCHANGED <<guiVars, bar, stack, runs, release, fsVars>>

PublishRelease ==
    /\ Idle
    /\ edits < MaxEdits
    /\ edits' = edits + 1
    /\ \E r \in Releases : r # release /\ release' = r
    /\ UNCHANGED otherVars
    /\ UNCHANGED <<guiVars, bar, stack, runs, manifest, fsVars>>

\* ---------------------------------------------------------- _progress_callback
\* the callback of the run on top, reporting one of n units; the label is
\* not modelled.  A destroyed popup has no progress bar: TclError.
ProgressCallback(n, next_pc) ==
    IF Top.destroyed
    THEN /\ stack' = SetTop(Raise(Top, "TclError"))
         /\ bar' = bar
    ELSE /\ bar' = ProgressValue(bar, n)
         /\ stack' = SetTop([Top EXCEPT !.pc = next_pc, !.before = bar,
                                        !.reports = Min(@ + 1, 1)])

\* one loop of the run, every unit of it reported to _progress_callback
TallyLoop ==
    /\ tally.loop \in 1..3
    /\ bar' = Reported(bar, tally.units[tally.loop], tally.units[tally.loop])
    /\ tally' = [tally EXCEPT !.loop = @ + 1]
    /\ UNCHANGED <<repoVars, listing>>
    /\ UNCHANGED <<guiVars, stack, runs, envVars, fsVars>>

TallyDownloadMods == tally.loop = 1 /\ TallyLoop
TallyPackClient == tally.loop = 2 /\ TallyLoop
TallyPackServer == tally.loop = 3 /\ TallyLoop

\* ------------------------------------------------------------ download_mods
DownloadCallback ==
    /\ stack # <<>>
    /\ Top.pc = "download"
    /\ ProgressCallback(Len(Top.mods), "download_update")
    /\ UNCHANGED otherVars
    /\ UNCHANGED <<guiVars, runs, envVars, fsVars>>

DownloadModStep ==
    /\ stack # <<>>
    /\ Top.pc = "download_update"
    /\ LET f == Top
           mod == f.mods[f.i]
           paths == DownloadMod(mod)
       IN  stack' = SetTop([f EXCEPT
               !.client_paths = ClientExtend(mod.side, @, paths),
               !.server_paths = ServerExtend(mod.side, @, paths),
               !.dropped = @ \/ mod.side \notin KnownSides,
               !.i = @ + 1,
               !.pc = IF f.i = Len(f.mods) THEN "move_mods" ELSE "download"])
    /\ UNCHANGED otherVars
    /\ UNCHANGED <<guiVars, bar, runs, envVars, fsVars>>

\* ---------------------------------------------------------------- move_mods
RelSet(path_list, root) ==
    {RelativeTo(path_list[k], root) : k \in 1..Len(path_list)}

MoveMods ==
    /\ stack # <<>>
    /\ Top.pc = "move_mods"
    /\ client_archive' =
         MoveFileToFolder(Top.client_paths, CacheDir, ResetFolder(client_archive))
    /\ server_archive' =
         MoveFileToFolder(Top.server_paths, CacheDir, ResetFolder(server_archive))
    /\ stack' = SetTop([Top EXCEPT
         !.pc = "download_pack_archive",
         !.log = Append(@, "Relocating"),
         !.staged_client = RelSet(Top.client_paths, CacheDir),
         !.staged_server = RelSet(Top.server_paths, CacheDir)])
    /\ UNCHANGED otherVars
    /\ UNCHANGED <<guiVars, bar, runs, envVars, cached, temp, zips, cwd>>

\* --------------------------------------------------- handle_pack_extra_files
\* download_pack_archive and the try/except around it
DownloadPackArchive ==
    /\ stack # <<>>
    /\ Top.pc = "download_pack_archive"
    /\ LET f == [Top EXCEPT !.log = Append(@, "ExtractingBulkArchive")]
           got == FetchAssets(release.assets, cached, <<>>)
       IN  IF ~release.exists
           THEN \* LatestReleaseNotFound: showerror, raise PackingInterruptException
                /\ stack' = SetTop(Raise([f EXCEPT !.lookup = "LatestReleaseNotFound"],
                                         "PackingInterruptException"))
                /\ cached' = cached
           ELSE IF got.path = <<>>
           THEN \* return gtnh_archive_path with the name never assigned
                /\ stack' = SetTop(Raise([f EXCEPT !.lookup = "UnboundLocalError"],
                                         "UnboundLocalError"))
                /\ cached' = got.cache
           ELSE /\ stack' = SetTop([f EXCEPT !.lookup = "found",
                                             !.archive_path = got.path,
                                             !.pc = "extract"])
                /\ cached' = got.cache
    /\ UNCHANGED otherVars
    /\ UNCHANGED <<guiVars, bar, runs, envVars, client_archive, server_archive,
                   temp, zips, cwd>>

\* the temp folder is deleted, recreated and receives the bulk archive
ExtractArchive ==
    /\ stack # <<>>
    /\ Top.pc = "extract"
    /\ temp' = cached[Top.archive_path]
    /\ stack' = SetTop([Top EXCEPT !.pc = "resolve"])
    /\ UNCHANGED otherVars
    /\ UNCHANGED <<guiVars, bar, runs, envVars, cached, client_archive,
                   server_archive, zips, cwd>>

\* the manifest is loaded again; exclusion lists, crawl and the differences
ResolveFileSets ==
    /\ stack # <<>>
    /\ Top.pc = "resolve"
    /\ LET client_exclusions == JoinAll(TempDir, manifest.client_exclusions)
           server_exclusions == JoinAll(TempDir, manifest.server_exclusions)
           availiable_files == SeqToSet(CrawlAt(TempDir, temp))
       IN  stack' = SetTop([Top EXCEPT
               !.pc = "relocate",
               !.log = Append(@, "ResolvingFileSets"),
               !.client_exclusions = client_exclusions,
               !.server_exclusions = server_exclusions,
               !.availiable_files = availiable_files,
               !.client_files = ResolveFiles(availiable_files, client_exclusions),
               !.server_files = ResolveFiles(availiable_files, server_exclusions)])
    /\ UNCHANGED otherVars
    /\ UNCHANGED <<guiVars, bar, runs, envVars, fsVars>>

\* the two move_file_to_folder calls that end handle_pack_extra_files
RelocateExtraFiles ==
    /\ stack # <<>>
    /\ Top.pc = "relocate"
    /\ client_archive' =
         MoveFileToFolder(Sorted(Top.client_files), TempDir, client_archive)
    /\ server_archive' =
         MoveFileToFolder(Sorted(Top.server_files), TempDir, server_archive)
    /\ stack' = SetTop([Top EXCEPT
         !.pc = "pack_client_begin",
         !.log = Append(@, "Relocating"),
         !.into = [client |-> client_archive, server |-> server_archive],
         !.staged_client = @ \cup RelSet(Sorted(Top.client_files), TempDir),
         !.staged_server = @ \cup RelSet(Sorted(Top.server_files), TempDir)])
    /\ UNCHANGED otherVars
    /\ UNCHANGED <<guiVars, bar, runs, envVars, cached, temp, zips, cwd>>

\* ------------------------------------------- pack_clientpack, pack_serverpack
FolderPath(side) == IF side = "client" THEN ClientFolder ELSE ServerFolder
Folder(side) == IF side = "client" THEN client_archive ELSE server_archive
StageName(side) == IF side = "client" THEN "PackingClient" ELSE "PackingServer"

\* an archive removed by os.remove is no longer the file an enclosing run
\* has open for writing
Unlink(frames) == [k \in 1..Len(frames) |-> [frames[k] EXCEPT !.linked = FALSE]]

\* (mutant) an archive of that name is kept and appended to
OpenArchive_Append(zip) == [exists |-> TRUE, members |-> zip.members]

\* os.remove of an archive of that name, then ZipFile(archive_name, "w")
OpenArchive(zip) == [exists |-> TRUE, members |-> <<>>]

\* (mutant) the member is named relative to the cache directory
MemberName_FromCache(mod_path, folder) == RelativeTo(mod_path, CacheDir)

\* mod_path.relative_to(cache_dir / "client_archive"), the name in the zip
MemberName(mod_path, folder) == RelativeTo(mod_path, folder)

\* (mutant) the delta is computed once the archive is open
RaisedAtDelta_AfterOpen(dir, archives, name) ==
    [cwd |-> "cache", zips |-> [archives EXCEPT ![name] = OpenArchive(@)]]

\* 100 / len(paths) raises ZeroDivisionError in the first statement of
\* pack_*pack: the working directory and the archives at that point
RaisedAtDelta(dir, archives, name) == [cwd |-> dir, zips |-> archives]

\* crawl(folder) in start, then pack_*pack up to the opening of the archive
PackBegin(side, loop_pc) ==
    LET f == [Top EXCEPT !.log = Append(@, StageName(side))]
        name == <<side, f.version>>
        paths == CrawlAt(FolderPath(side), Folder(side))
        below == SubSeq(stack, 1, Len(stack) - 1)
    IN  IF ~Folder(side).exists
        THEN /\ stack' = SetTop(Raise(f, "FileNotFoundError"))
             /\ UNCHANGED <<zips, cwd>>
        ELSE IF Len(paths) = 0
        THEN /\ stack' = SetTop(Raise(f, "ZeroDivisionError"))
             /\ cwd' = RaisedAtDelta(cwd, zips, name).cwd
             /\ zips' = RaisedAtDelta(cwd, zips, name).zips
        ELSE /\ cwd' = "cache"
             /\ zips' = [zips EXCEPT ![name] = OpenArchive(@)]
             /\ stack' = Append(IF zips[name].exists THEN Unlink(below) ELSE below,
                                [f EXCEPT !.pc = loop_pc, !.paths = paths, !.i = 1,
                                          !.saved_cwd = cwd, !.linked = TRUE,
                                          !.zip_dir[side] = cwd',
                                          !.at_pack[side] = Folder(side).files])

\* archive.write(mod_path, mod_path.relative_to(folder)); after the last
\* member the archive is closed and the working directory restored
PackWrite(side, loop_pc, next_pc) ==
    LET f == Top
        name == <<side, f.version>>
        member == MemberName(f.paths[f.i], FolderPath(side))
    IN  IF RelativeTo(f.paths[f.i], FolderPath(side)) \notin Folder(side).files
        THEN /\ stack' = SetTop(Raise(f, "FileNotFoundError"))
             /\ UNCHANGED <<zips, cwd>>
        ELSE /\ zips' = IF f.linked
                        THEN [zips EXCEPT ![name].members = Append(@, member)]
                        ELSE zips
             /\ IF f.i = Len(f.paths)
                THEN /\ cwd' = f.saved_cwd
                     /\ stack' = SetTop([f EXCEPT !.pc = next_pc])
                ELSE /\ cwd' = cwd
                     /\ stack' = SetTop([f EXCEPT !.pc = loop_pc, !.i = @ + 1])

PackClientBegin ==
    /\ stack # <<>>
    /\ Top.pc = "pack_client_begin"
    /\ PackBegin("client", "pack_client")
    /\ UNCHANGED otherVars
    /\ UNCHANGED <<guiVars, bar, runs, envVars, cached, client_archive,
                   server_archive, temp>>

PackClientCallback ==
    /\ stack # <<>>
    /\ Top.pc = "pack_client"
    /\ ProgressCallback(Len(Top.paths), "pack_client_update")
    /\ UNCHANGED otherVars
    /\ UNCHANGED <<guiVars, runs, envVars, fsVars>>

PackClientWrite ==
    /\ stack # <<>>
    /\ Top.pc = "pack_client_update"
    /\ PackWrite("client", "pack_client", "pack_server_begin")
    /\ UNCHANGED otherVars
    /\ UNCHANGED <<guiVars, bar, runs, envVars, cached, client_archive,
                   server_archive, temp>>

PackServerBegin ==
    /\ stack # <<>>
    /\ Top.pc = "pack_server_begin"
    /\ PackBegin("server", "pack_server")
    /\ UNCHANGED otherVars
    /\ UNCHANGED <<guiVars, bar, runs, envVars, cached, client_archive,
                   server_archive, temp>>

PackServerCallback ==
    /\ stack # <<>>
    /\ Top.pc = "pack_server"
    /\ ProgressCallback(Len(Top.paths), "pack_server_update")
    /\ UNCHANGED otherVars
    /\ UNCHANGED <<guiVars, runs, envVars, fsVars>>

PackServerWrite ==
    /\ stack # <<>>
    /\ Top.pc = "pack_server_update"
    /\ PackWrite("server", "pack_server", "finish")
    /\ UNCHANGED otherVars
    /\ UNCHANGED <<guiVars, bar, runs, envVars, cached, client_archive,
                   server_archive, temp>>

\* pack_technic, make_deploader_json and pack_curse do nothing
Finish ==
    /\ stack # <<>>
    /\ Top.pc = "finish"
    /\ stack' = SetTop([Top EXCEPT !.pc = "Done", !.log = Append(@, "Done")])
    /\ UNCHANGED otherVars
    /\ UNCHANGED <<guiVars, bar, runs, envVars, fsVars>>

\* ----------------------------------------------------------- specifications
RunStep ==
    \/ DownloadCallback
    \/ DownloadModStep
    \/ MoveMods
    \/ DownloadPackArchive
    \/ ExtractArchive
    \/ ResolveFileSets
    \/ RelocateExtraFiles
    \/ PackClientBegin
    \/ PackClientCallback
    \/ PackClientWrite
    \/ PackServerBegin
    \/ PackServerCallback
    \/ PackServerWrite
    \/ Finish
    \/ Return

\* events reach the handlers from the main loop only
Next ==
    \/ PressBuildArchive
    \/ ClosePopup
    \/ PressStart
    \/ EditManifest
    \/ PublishRelease
    \/ RunStep

Spec == Init /\ [][Next]_vars

\* events are dispatched by self.update() of a run in progress as well
NextGui ==
    \/ Next
    \/ UpdatePressBuildArchive
    \/ UpdateClosePopup
    \/ UpdatePressStart

SpecGui == Init /\ [][NextGui]_vars

\* runs of the pipeline on a manifest and a release that do not change
NextRuns ==
    \/ PressBuildArchive
    \/ PressStart
    \/ RunStep

SpecMods == InitMods /\ [][NextRuns]_vars
SpecExclusions == InitExclusions /\ [][NextRuns]_vars
SpecTrees == InitTrees /\ [][NextRuns]_vars
SpecEmpty == InitEmpty /\ [][Next]_vars

\* the progress reports of a run, loop by loop
NextTally ==
    \/ TallyDownloadMods
    \/ TallyPackClient
    \/ TallyPackServer

SpecProgress == InitTally /\ [][NextTally]_vars

\* the two popups of MainFrame and the events of AddRepoPopup
NextRepo ==
    \/ PressBuildArchive
    \/ ClosePopup
    \/ PressAddRepo
    \/ CloseRepoPopup
    \/ TypeRepoName
    \/ PressValidate
    \/ DismissMessagebox

SpecRepo == InitRepo /\ [][NextRepo]_vars

\* ------------------------------------------------------------------ claims
Frames == {stack[k] : k \in 1..Len(stack)}
Stages(f) == SeqToSet(f.log)
LookupFailed(f) == f.lookup = "LatestReleaseNotFound"

\* C1: a run whose bulk-archive release lookup fails with
\* LatestReleaseNotFound leaves client_archive/ and server_archive/ as they
\* were when the run started.
C1_AbortAtomicity ==
    \A f \in Frames :
        LookupFailed(f) =>
            /\ client_archive = f.snap.client
            /\ server_archive = f.snap.server

\* C2: at most one run of ArchivePopup.start is in a non-terminal state at
\* any time, whatever events the main loop and self.update() dispatch.
C2_SingleFlight ==
    Cardinality({k \in 1..Len(stack) : stack[k].pc \notin TerminalPcs}) <= 1

\* C3: at packing time the staging folders hold only files the current run
\* relocated into them, and no file its exclusion lists name.
ClientPackPcs == {"pack_client_begin", "pack_client", "pack_client_update"}
ServerPackPcs == {"pack_server_begin", "pack_server", "pack_server_update"}

C3_NoStaleFiles ==
    \A f \in Frames :
        /\ f.pc \in ClientPackPcs =>
             /\ client_archive.files \subseteq f.staged_client
             /\ \A e \in SeqToSet(f.client_exclusions) :
                  RelativeTo(e, TempDir) \notin client_archive.files
        /\ f.pc \in ServerPackPcs =>
             /\ server_archive.files \subseteq f.staged_server
             /\ \A e \in SeqToSet(f.server_exclusions) :
                  RelativeTo(e, TempDir) \notin server_archive.files

\* a run reaches packing although the folders held, when it started, files
\* it does not stage
C3_Witness ==
    \E f \in Frames :
        /\ f.pc = "pack_client_begin"
        /\ f.snap.client.files \ f.staged_client # {}
        /\ f.snap.server.files \ f.staged_server # {}

\* C4: a successful run passes through DownloadingMods,
\* ExtractingBulkArchive, ResolvingFileSets, Relocating, PackingClient,
\* PackingServer, Done in this order: nothing is reset or relocated before
\* the bulk archive is extracted and the file sets are resolved.
C4_StageOrder ==
    \A f \in Frames :
        f.pc = "Done" =>
            f.log = <<"DownloadingMods", "ExtractingBulkArchive",
                      "ResolvingFileSets", "Relocating", "PackingClient",
                      "PackingServer", "Done">>

\* C5: a run whose release lookup fails ends Aborted, the exception caught
\* in start, without packing, with every client-/server-<version>.zip and
\* the temp folder as they were when the run started.
C5_AbortWithoutOutput ==
    \A f \in Frames :
        LookupFailed(f) =>
            /\ f.pc = "Aborted"
            /\ f.error = "PackingInterruptException"
            /\ Stages(f) \cap {"PackingClient", "PackingServer", "ResolvingFileSets"} = {}
            /\ zips = f.snap.zips
            /\ temp = f.snap.temp

\* the lookup fails in a run that started with archives and a temp folder
\* of an earlier run on disk
C5_Witness ==
    \E f \in Frames :
        /\ LookupFailed(f)
        /\ temp.exists
        /\ \E n \in ArchiveNames : zips[n].exists

\* the paths, in order, of the mods whose side is in sides
RECURSIVE PathsOfSides(_, _)
PathsOfSides(mods, sides) ==
    IF mods = <<>> THEN <<>>
    ELSE (IF Head(mods).side \in sides THEN DownloadMod(Head(mods)) ELSE <<>>)
         \o PathsOfSides(Tail(mods), sides)

\* C6: for mods with side BOTH, CLIENT or SERVER, download_mods returns as
\* client_paths the paths of the BOTH and CLIENT mods in order and as
\* server_paths those of the BOTH and SERVER mods in order; the paths of a
\* CLIENT mod are not in server_paths, those of a SERVER mod not in
\* client_paths.
C6_SideRouting ==
    \A f \in Frames :
        (f.pc = "move_mods" /\ \A k \in 1..Len(f.mods) : f.mods[k].side \in KnownSides) =>
            /\ f.client_paths = PathsOfSides(f.mods, {"BOTH", "CLIENT"})
            /\ f.server_paths = PathsOfSides(f.mods, {"BOTH", "SERVER"})
            /\ \A k \in 1..Len(f.mods) :
                 /\ f.mods[k].side = "CLIENT" =>
                      SeqToSet(DownloadMod(f.mods[k])) \cap SeqToSet(f.server_paths) = {}
                 /\ f.mods[k].side = "SERVER" =>
                      SeqToSet(DownloadMod(f.mods[k])) \cap SeqToSet(f.client_paths) = {}

\* download_mods has returned for a SERVER, a BOTH and a CLIENT mod
C6_Witness ==
    \E f \in Frames :
        /\ f.pc = "move_mods"
        /\ Len(f.mods) = 3
        /\ f.mods[1].side = "SERVER"
        /\ f.mods[2].side = "BOTH"
        /\ f.mods[3].side = "CLIENT"
        /\ Len(f.client_paths) = 3
        /\ Len(f.server_paths) = 3

\* C7: a run that meets a mod whose side is none of BOTH, CLIENT, SERVER
\* fails before the staging folders are touched; it does not go on without
\* the mod.
C7_UnknownSideFailsFast ==
    \A f \in Frames :
        f.dropped =>
            /\ f.pc = "Crashed"
            /\ "Relocating" \notin Stages(f)

\* C8: client_files (server_files) is the set of discovered files minus the
\* client (server) exclusions joined with the extraction root: a subset of
\* the discovered files, untouched by entries that name no discovered file
\* and by the other side's list.
Excluded(p, exclusions) ==
    \E k \in 1..Len(exclusions) : Join(TempDir, exclusions[k]) = p

C8_SetDifference ==
    \A f \in Frames :
        f.pc = "relocate" =>
            /\ f.availiable_files = {TempDir \o r : r \in temp.files}
            /\ f.client_files \subseteq f.availiable_files
            /\ f.server_files \subseteq f.availiable_files
            /\ \A p \in f.availiable_files :
                 /\ p \in f.client_files <=> ~Excluded(p, manifest.client_exclusions)
                 /\ p \in f.server_files <=> ~Excluded(p, manifest.server_exclusions)

\* the file sets are resolved with an entry naming no discovered file, and
\* the two sides differ
C8_Witness ==
    \E f \in Frames :
        /\ f.pc = "relocate"
        /\ ExZZ \in SeqToSet(manifest.client_exclusions)
        /\ f.client_files # f.availiable_files
        /\ f.server_files # f.client_files
        /\ f.server_files # {}

\* C9: a discovered file is excluded by every exclusion entry that is an
\* equivalent spelling of its path relative to the extraction root ("."
\* components, redundant separators, "x/.." detours).
\* lexical normalisation that also folds "x/.." detours (os.path.normpath)
RECURSIVE Normalize(_)
Normalize(parts) ==
    IF parts = <<>> THEN <<>>
    ELSE LET rest == Normalize(SubSeq(parts, 1, Len(parts) - 1))
             last == parts[Len(parts)]
         IN  IF last \in {"", "."} THEN rest
             ELSE IF last = ".." /\ rest # <<>> /\ rest[Len(rest)] # ".."
                  THEN SubSeq(rest, 1, Len(rest) - 1)
                  ELSE Append(rest, last)

\* the entry raw is a spelling of the relative path rel
Equivalent(raw, rel) == Normalize(raw) = rel

C9_NormalizedMembership ==
    \A f \in Frames :
        f.pc = "relocate" =>
            \A p \in f.availiable_files :
                /\ (\E e \in SeqToSet(manifest.client_exclusions) :
                        Equivalent(e, RelativeTo(p, TempDir)))
                     => p \notin f.client_files
                /\ (\E e \in SeqToSet(manifest.server_exclusions) :
                        Equivalent(e, RelativeTo(p, TempDir)))
                     => p \notin f.server_files

\* C10: after every call of _progress_callback the progress value is at
\* most 100 and not below the value after the previous call.
C10_ProgressSafety ==
    /\ bar <= 10000
    /\ \A f \in Frames : f.pc \in UpdatePcs => f.before <= bar

\* a report that the cap of 100 cuts
C10_Witness ==
    \E f \in Frames :
        /\ f.pc = "pack_client_update"
        /\ f.before < 10000
        /\ bar = 10000
        /\ ProgressValue_NoCap(f.before, Len(f.paths)) > 10000

\* C11: at the end of a full successful run, for every number of mods and
\* of staged files, the accumulated progress value differs from 100.0 by at
\* most 0.01.
C11_ProgressCompletion ==
    /\ tally.loop = 4 => bar >= 9999 /\ bar <= 10001
    /\ \A f \in Frames : f.pc = "Done" => bar >= 9999 /\ bar <= 10001

\* C12: at the beginning of every invocation of ArchivePopup.start, a second
\* invocation in the same popup included, the accumulated progress value is
\* 0 before the first progress report of that run.
C12_ProgressReset ==
    \A f \in Frames :
        f.pc = "download" /\ f.i = 1 /\ f.reports = 0 => bar = 0

\* C13: after pack_clientpack (pack_serverpack) the archive lists the
\* members of this call's file list and nothing else, whatever an archive of
\* that name held before; a second call with the same file list and version
\* leaves the archive as the first call left it.
MembersOf(paths, side) ==
    [k \in 1..Len(paths) |-> RelativeTo(paths[k], FolderPath(side))]

Rebuilt(f, side) ==
    LET zip == zips[<<side, f.version>>]
        old == f.snap.zips[<<side, f.version>>]
    IN  /\ zip.exists
        /\ zip.members = MembersOf(f.paths, side)
        /\ old.exists /\ old.members = MembersOf(f.paths, side) => zip = old

C13_RebuildIdempotence ==
    \A f \in Frames :
        /\ f.pc = "pack_server_begin" => Rebuilt(f, "client")
        /\ f.pc = "finish" => Rebuilt(f, "server")

\* a client archive is rebuilt over an earlier build of the same version
\* that held a member the new file list does not have
C13_Witness ==
    \E f \in Frames :
        /\ f.pc = "pack_server_begin"
        /\ f.snap.zips[<<"client", f.version>>].exists
        /\ SeqToSet(f.snap.zips[<<"client", f.version>>].members)
               \ SeqToSet(MembersOf(f.paths, "client")) # {}

\* C14: after a successful run the members of client-<version>.zip are
\* exactly the paths, relative to client_archive/, of the files that were in
\* client_archive/ when packing started, each once, and likewise for the
\* server; both archives were opened with the cache directory as the
\* working directory.
Complete(f, side) ==
    LET members == zips[<<side, f.version>>].members
    IN  /\ SeqToSet(members) = f.at_pack[side]
        /\ Len(members) = Cardinality(f.at_pack[side])
        /\ f.zip_dir[side] = "cache"

C14_ArchiveCompleteness ==
    \A f \in Frames :
        f.pc = "Done" => Complete(f, "client") /\ Complete(f, "server")

\* a run is done whose client folder held a file in a subdirectory
C14_Witness ==
    \E f \in Frames :
        /\ f.pc = "Done"
        /\ \E m \in f.at_pack["client"] : Len(m) > 1
        /\ f.at_pack["server"] # {}

\* C17: download_pack_archive raises LatestReleaseNotFound whenever the
\* release has no .zip asset, also when a latest release exists; an asset
\* already in the cache is not downloaded again and its path is returned.
HasZipAsset(r) == \E k \in 1..Len(r.assets) : EndsWithZip(r.assets[k].name)

C17_NoAssetIsLatestReleaseNotFound ==
    \A f \in Frames :
        /\ f.lookup # "" /\ ~HasZipAsset(release) => LookupFailed(f)
        /\ f.lookup = "found" /\ f.snap.cached[f.archive_path].exists =>
               cached[f.archive_path] = f.snap.cached[f.archive_path]

\* C20: when pack_clientpack or pack_serverpack has returned or raised, the
\* working directory is the one the call was entered with.
C20_WorkingDirectoryFrame ==
    stack # <<>> /\ "PackingClient" \in Stages(Top)
                 /\ Top.pc \in TerminalPcs \cup {"pack_server_begin", "finish"}
        => cwd = Top.saved_cwd

\* C15: crawl returns every regular file below its root exactly once and no
\* directory, for every tree and every order of directory listing: the
\* files found in the extracted bulk archive are all its files, and the
\* list handed to pack_clientpack (pack_serverpack) holds each file of the
\* staging folder once.
ExactlyOnce(paths, root, dir) ==
    /\ Len(paths) = Cardinality(dir.files)
    /\ SeqToSet(paths) = {root \o r : r \in dir.files}
    /\ \A k \in 1..Len(paths) : RelativeTo(paths[k], root) \notin dir.dirs

C15_CrawlExactlyOnce ==
    \A f \in Frames :
        /\ f.pc = "relocate" =>
               f.availiable_files = {TempDir \o r : r \in temp.files}
        /\ f.pc \in {"pack_client", "pack_client_update"} =>
               ExactlyOnce(f.paths, ClientFolder, client_archive)
        /\ f.pc \in {"pack_server", "pack_server_update"} =>
               ExactlyOnce(f.paths, ServerFolder, server_archive)

\* a folder with a file three levels down and an empty directory beside it
\* has been crawled under a listing order other than by name
C15_Witness ==
    \E f \in Frames :
        /\ f.pc = "pack_client"
        /\ listing # "ascending"
        /\ \E p \in client_archive.files : Len(p) = 3
        /\ <<"e">> \in temp.dirs
        /\ Len(f.paths) >= 4

\* C16: move_file_to_folder puts each file at the destination root joined
\* with its path relative to the source root, creating the missing parent
\* directories; the order of the list does not matter, a second call changes
\* nothing, and the source tree is left as it was.
PermutationsOf(list) ==
    {[k \in 1..Len(list) |-> list[p[k]]] : p \in Permutations(1..Len(list))}

Relocated(files, before, after) ==
    LET list == Sorted(files)
    IN  /\ after.exists
        /\ after.files = before.files \cup {RelativeTo(p, TempDir) : p \in files}
        /\ after.dirs = before.dirs
                          \cup UNION {Ancestors(RelativeTo(p, TempDir)) : p \in files}
        /\ \A perm \in PermutationsOf(list) :
               MoveFileToFolder(perm, TempDir, before) = after
        /\ MoveFileToFolder(list, TempDir, after) = after

Addable(name, mods) ==
    /\ name \in Repositories
    /\ ~\E k \in 1..Len(mods) : mods[k].name = name
    /\ name \in Released

C18_ValidateWritesOnSuccess ==
    validated.report # "" =>
        /\ is_messagebox_open => validated.name = stringvar_name_repo
        /\ IF Addable(validated.name, validated.before)
           THEN /\ validated.written
                /\ Len(manifest.github_mods) = Len(validated.before) + 1
                /\ SeqToSet(manifest.github_mods) =
                       SeqToSet(validated.before)
                         \cup {m \in SeqToSet(manifest.github_mods) :
                                   m.name = validated.name}
                /\ validated.report = "showinfo: repository added successfully"
           ELSE /\ ~validated.written
                /\ manifest.github_mods = validated.before
                /\ validated.report # "showinfo: repository added successfully"

\* validate has refused a repository without a release, the manifest
\* holding mods already
C18_Witness ==
    /\ is_messagebox_open
    /\ validated.name \in Repositories \ Released
    /\ validated.before # <<>>

\* C19: at most one ArchivePopup and at most one AddRepoPopup is open;
\* is_archive_popup_open (is_new_repo_popup_open) is true exactly while a
\* popup of that type is open, so that the button opens a new popup once
\* the earlier one is destroyed.
C19_PopupGuard ==
    /\ archive_windows <= 1
    /\ repo_windows <= 1
    /\ is_archive_popup_open <=> archive_windows = 1
    /\ is_new_repo_popup_open <=> repo_windows = 1
    /\ archive_popup <=> archive_windows = 1
    /\ repo_popup <=> repo_windows = 1
    /\ archive_windows = 0 => MayOpen(is_archive_popup_open)
    /\ repo_windows = 0 => MayOpen(is_new_repo_popup_open)

\* both popups are open, the AddRepoPopup a new one with an empty entry,
\* opened after the popup in which validate was called was destroyed
C19_Witness ==
    /\ archive_windows = 1 /\ is_archive_popup_open
    /\ repo_windows = 1 /\ is_new_repo_popup_open
    /\ stringvar_name_repo = 0
    /\ validated.name # 0

\* C21: the step in which download_mods, pack_clientpack or pack_serverpack
\* raises ZeroDivisionError on an empty list reports no progress, leaves the
\* working directory where it was, and neither deletes nor creates an
\* archive; download_mods raises it on every empty mod list, before the
\* first report of the run.
RaisesZeroDivision ==
    /\ stack' # <<>>
    /\ stack'[Len(stack')].error = "ZeroDivisionError"
    /\ \/ Len(stack') > Len(stack)
       \/ Len(stack') = Len(stack) /\ Top.error = ""

StartsOnNoMods ==
    Len(stack') > Len(stack) /\ stack'[Len(stack')].mods = <<>>

C21_EmptyInputRejected ==
    [][ /\ RaisesZeroDivision =>
             /\ bar' = bar
             /\ cwd' = cwd
             /\ zips' = zips
             /\ stack'[Len(stack')].pc = "Crashed"
        /\ StartsOnNoMods =>
             /\ stack'[Len(stack')].error = "ZeroDivisionError"
             /\ stack'[Len(stack')].reports = 0 ]_vars

\* pack_serverpack has raised on an empty list while server-<version>.zip
\* of an earlier run exists, pack_clientpack having written its archive
C21_Witness ==
    \E f \in Frames :
        /\ f.error = "ZeroDivisionError"
        /\ "PackingServer" \in Stages(f)
        /\ f.mods # <<>>
        /\ zips[<<"server", f.version>>].exists
        /\ zips[<<"server", f.version>>].members # <<>>
        /\ cwd = "app"
====
